---- MODULE Spec2Model ----
(***************************************************************************)
(* A model of json-flatten (src/src/json_flatten.rs) and of the stream     *)
(* driver it runs under (src/src/lib.rs).                                  *)
(*                                                                         *)
(* Strings are sequences of one-character strings, so that joining path    *)
(* segments with a separator and splitting a key on it are computed, not   *)
(* assumed.  A JSON value is a record tagged by t; an object keeps its     *)
(* entries as a sequence of <<key, value>> pairs with distinct keys, in    *)
(* the iteration order of serde_json::Map.  An UnflattenTree node is a     *)
(* record tagged by k; a Branch holds a function from keys to nodes, as    *)
(* the HashMap does (unordered).                                           *)
(***************************************************************************)
EXTENDS Integers, Sequences, FiniteSets, TLC

VARIABLES
    sep,        \* Flatten.sep, the configured separator
    pc,         \* position of the operation under way
    input,      \* the value handed to process_one / flatten / unflatten
    emitted,    \* what Flatten::process_one serialized
    back,       \* result of unflatten applied to `emitted`
    pending,    \* unflatten: entries of the input object not yet inserted
    tree,       \* unflatten: the tree being built
    ures,       \* unflatten: its Result
    records,    \* driver: the input stream, one element per record
    mode,       \* driver: "flatten" or "unflatten" (Args.unflatten)
    pos,        \* driver: number of records taken from the stream
    stdout,     \* driver: what has been written to standard output
    log,        \* driver: indices of the records handed to process_one
    status      \* driver: "running", "ok" or "err"

vars == <<sep, pc, input, emitted, back, pending, tree, ures,
          records, mode, pos, stdout, log, status>>

(***************************************************************************)
(* Bounds of the model.                                                    *)
(***************************************************************************)
MaxNodes == 4       \* nodes (containers and scalars) of a flatten input
MaxEntries == 3     \* entries of an unflatten input object
MaxRecords == 3     \* records of an input stream

(***************************************************************************)
(* Strings.                                                                *)
(***************************************************************************)
Dot == <<".">>
Seps == {Dot, <<":", ":">>}

Digits == <<"0", "1", "2", "3", "4", "5", "6", "7", "8", "9">>

\* Display of a usize: its decimal digits.
RECURSIVE ToDec(_)
ToDec(n) == IF n < 10 THEN <<Digits[n + 1]>>
            ELSE ToDec(n \div 10) \o <<Digits[(n % 10) + 1]>>

IsPrefixAt(s, i, p) ==
    /\ i + Len(p) - 1 <= Len(s)
    /\ SubSeq(s, i, i + Len(p) - 1) = p

\* str::split(pat) for a non-empty pattern: the pieces between the leftmost,
\* non-overlapping matches; always at least one piece.
RECURSIVE SplitFrom(_, _, _, _)
SplitFrom(s, p, i, cur) ==
    IF i > Len(s) THEN <<cur>>
    ELSE IF IsPrefixAt(s, i, p)
         THEN <<cur>> \o SplitFrom(s, p, i + Len(p), <<>>)
         ELSE SplitFrom(s, p, i + 1, Append(cur, s[i]))

SplitWhole(s, p) == <<s>>

Split(s, p) == SplitFrom(s, p, 1, <<>>)

(***************************************************************************)
(* serde_json::Value.                                                      *)
(***************************************************************************)
Null == [t |-> "null"]
Bool(b) == [t |-> "bool", b |-> b]
Num(n) == [t |-> "num", n |-> n]
Str(s) == [t |-> "str", s |-> s]
Arr(items) == [t |-> "arr", items |-> items]
Obj(entries) == [t |-> "obj", entries |-> entries]

is_object(v) == v.t = "obj"
is_array(v) == v.t = "arr"
IsScalar(v) == ~is_object(v) /\ ~is_array(v)

IndexMapInsertFront(m, key, val) ==
    IF \E i \in 1..Len(m) : m[i][1] = key
    THEN [i \in 1..Len(m) |-> IF m[i][1] = key THEN <<key, val>> ELSE m[i]]
    ELSE << <<key, val>> >> \o m

\* IndexMap::insert: a new key is appended, an existing key keeps its place
\* and takes the new value.
IndexMapInsert(m, key, val) ==
    IF \E i \in 1..Len(m) : m[i][1] = key
    THEN [i \in 1..Len(m) |-> IF m[i][1] = key THEN <<key, val>> ELSE m[i]]
    ELSE Append(m, <<key, val>>)

\* Vec::into_iter().enumerate(): the items keyed by their 0-based index.
Enumerate(items) == [i \in 1..Len(items) |-> <<ToDec(i - 1), items[i]>>]

NextKeyAlwaysSep(s, current_key, k) == current_key \o s \o k

\* The body of the loop of Flatten::recurse that builds `key`.
NextKey(s, current_key, k) ==
    IF Len(current_key) = 0 THEN k ELSE current_key \o s \o k

RECURSIVE flatten(_, _, _, _), recurse(_, _, _, _)
\* Flatten::recurse: flatten every item in turn under current_key.
recurse(s, output, current_key, items) ==
    IF items = <<>> THEN output
    ELSE recurse(s,
                 flatten(s, output, NextKey(s, current_key, Head(items)[1]),
                         Head(items)[2]),
                 current_key, Tail(items))

\* Flatten::flatten: the output map after flattening current_value.
flatten(s, output, current_key, current_value) ==
    CASE is_array(current_value) ->
            recurse(s, output, current_key, Enumerate(current_value.items))
      [] is_object(current_value) ->
            recurse(s, output, current_key, current_value.entries)
      [] OTHER -> IndexMapInsert(output, current_key, current_value)

ProcessOneFlattenAlways(s, value) == Obj(flatten(s, <<>>, <<>>, value))

\* <Flatten as RunStreamJson>::process_one: the value it serializes.
ProcessOneFlatten(s, value) ==
    IF is_object(value) \/ is_array(value)
    THEN Obj(flatten(s, <<>>, <<>>, value))
    ELSE value

(***************************************************************************)
(* UnflattenTree.                                                          *)
(***************************************************************************)
Empty == [k |-> "Empty"]
Leaf(v) == [k |-> "Leaf", v |-> v]
Branch(m) == [k |-> "Branch", m |-> m]

has_children(node) == node.k = "Branch"

RECURSIVE InsertLastWriterWins(_, _, _)
InsertLastWriterWins(node, keys, value) ==
    IF keys # <<>>
    THEN LET key == Head(keys) IN
         IF node.k \in {"Empty", "Leaf"}
         THEN Branch(key :> InsertLastWriterWins(Empty, Tail(keys), value))
         ELSE LET m == IF key \in DOMAIN node.m THEN node.m
                       ELSE (key :> Empty) @@ node.m
              IN  Branch([m EXCEPT ![key] =
                             InsertLastWriterWins(m[key], Tail(keys), value)])
    ELSE Leaf(value)

RECURSIVE InsertKeepLeaf(_, _, _)
InsertKeepLeaf(node, keys, value) ==
    IF keys # <<>>
    THEN LET key == Head(keys) IN
         CASE node.k = "Empty" ->
                Branch(key :> InsertKeepLeaf(Empty, Tail(keys), value))
           [] node.k = "Leaf" -> node
           [] OTHER ->
                LET m == IF key \in DOMAIN node.m THEN node.m
                         ELSE (key :> Empty) @@ node.m
                IN  Branch([m EXCEPT ![key] =
                               InsertKeepLeaf(m[key], Tail(keys), value)])
    ELSE IF ~has_children(node) THEN Leaf(value) ELSE node

RECURSIVE InsertReplaceMap(_, _, _)
InsertReplaceMap(node, keys, value) ==
    IF keys # <<>>
    THEN LET key == Head(keys) IN
         IF node.k \in {"Empty", "Leaf"} \/ key \notin DOMAIN node.m
         THEN Branch(key :> InsertReplaceMap(Empty, Tail(keys), value))
         ELSE Branch([node.m EXCEPT ![key] =
                         InsertReplaceMap(node.m[key], Tail(keys), value)])
    ELSE IF ~has_children(node) THEN Leaf(value) ELSE node

RECURSIVE InsertNewChildEmpty(_, _, _)
InsertNewChildEmpty(node, keys, value) ==
    IF keys # <<>>
    THEN LET key == Head(keys) IN
         IF node.k \in {"Empty", "Leaf"}
         THEN Branch(key :> Empty)
         ELSE LET m == IF key \in DOMAIN node.m THEN node.m
                       ELSE (key :> Empty) @@ node.m
              IN  Branch([m EXCEPT ![key] =
                             InsertNewChildEmpty(m[key], Tail(keys), value)])
    ELSE IF ~has_children(node) THEN Leaf(value) ELSE node

RECURSIVE Insert(_, _, _)
\* UnflattenTree::insert: the node after inserting value under the
\* remaining key segments.
Insert(node, keys, value) ==
    IF keys # <<>>
    THEN LET key == Head(keys) IN
         IF node.k \in {"Empty", "Leaf"}
         THEN Branch(key :> Insert(Empty, Tail(keys), value))
         ELSE LET m == IF key \in DOMAIN node.m THEN node.m
                       ELSE (key :> Empty) @@ node.m
              IN  Branch([m EXCEPT ![key] = Insert(m[key], Tail(keys), value)])
    ELSE IF ~has_children(node) THEN Leaf(value) ELSE node

\* anyhow::Result of unflatten / process_one.
Ok(x) == [r |-> "ok", val |-> x]
Err == [r |-> "err"]
NoResult == [r |-> "none"]

\* The for loop of Flatten::unflatten over the entries still to insert.
RECURSIVE InsertAll(_, _, _)
InsertAll(s, t, entries) ==
    IF entries = <<>> THEN t
    ELSE InsertAll(s, Insert(t, Split(Head(entries)[1], s), Head(entries)[2]),
                   Tail(entries))

MatchObjectOrArray(value) ==
    IF is_object(value) THEN Ok(value.entries)
    ELSE IF is_array(value) THEN Ok(Enumerate(value.items))
    ELSE Err

\* The match at the head of Flatten::unflatten: the entries of an object,
\* bail! for anything else.
MatchObject(value) ==
    IF is_object(value) THEN Ok(value.entries) ELSE Err

\* Flatten::unflatten as a function of its input.
unflatten(s, value) ==
    LET x == MatchObject(value) IN
    IF x.r = "ok" THEN Ok(InsertAll(s, Empty, x.val)) ELSE Err

(***************************************************************************)
(* Comparison of results, as the tests do it: serialize, parse again and   *)
(* compare as serde_json values, where two objects are equal when they     *)
(* hold the same keys with equal values, in any order.                     *)
(***************************************************************************)
Map(m) == [t |-> "map", m |-> m]

EntryValue(entries, key) ==
    (CHOOSE e \in {entries[i] : i \in 1..Len(entries)} : e[1] = key)[2]

RECURSIVE Canon(_)
Canon(v) ==
    CASE is_object(v) ->
            Map([key \in {v.entries[i][1] : i \in 1..Len(v.entries)} |->
                    Canon(EntryValue(v.entries, key))])
      [] is_array(v) -> Arr([i \in 1..Len(v.items) |-> Canon(v.items[i])])
      [] OTHER -> v

\* #[serde(untagged)] Serialize of UnflattenTree, read back as a value.
RECURSIVE SerializeTree(_)
SerializeTree(node) ==
    CASE node.k = "Branch" ->
            Map([key \in DOMAIN node.m |-> SerializeTree(node.m[key])])
      [] node.k = "Leaf" -> Canon(node.v)
      [] OTHER -> Null

(***************************************************************************)
(* Inputs of the model.                                                    *)
(***************************************************************************)
LeafScalars == {Null, Num(1)}
Scalars == LeafScalars \cup {Bool(TRUE), Str(<<"a">>)}
Keys == {<<>>, <<"a">>, <<"a", ".", "b">>}

\* The item lists of m nodes in all of an array and of an object with keys
\* among `keys`, where tab[j] holds the values of exactly j nodes.
RECURSIVE ArrContents(_, _), ObjContents(_, _, _)
ArrContents(tab, m) ==
    IF m = 0 THEN {<<>>}
    ELSE UNION {{<<x>> \o r : x \in tab[j], r \in ArrContents(tab, m - j)} :
                j \in 1..m}

ObjContents(tab, m, keys) ==
    IF m = 0 THEN {<<>>}
    ELSE UNION {UNION {{<< <<key, x>> >> \o r :
                          x \in tab[j],
                          r \in ObjContents(tab, m - j, keys \ {key})} :
                       key \in keys} :
                j \in 1..m}

\* The JSON values of exactly n nodes over LeafScalars and Keys, given the
\* table of the smaller ones.
ValuesOfSize(tab, n) ==
    IF n = 1 THEN LeafScalars \cup {Arr(<<>>), Obj(<<>>)}
    ELSE {Arr(c) : c \in ArrContents(tab, n - 1)}
         \cup {Obj(c) : c \in ObjContents(tab, n - 1, Keys)}

\* SizeTable(n)[j], for j in 1..n: the JSON values of exactly j nodes.
RECURSIVE SizeTable(_)
SizeTable(n) ==
    IF n = 0 THEN <<>>
    ELSE CHOOSE t \in {Append(tab, ValuesOfSize(tab, n)) :
                          tab \in {SizeTable(n - 1)}} : TRUE

\* The values of the first n entries of the table.
RECURSIVE UpTo(_, _)
UpTo(tab, n) == IF n = 0 THEN {} ELSE UpTo(tab, n - 1) \cup tab[n]

FlattenInputs ==
    Scalars \cup (CHOOSE all \in {UpTo(tab, MaxNodes) :
                                     tab \in {SizeTable(MaxNodes)}} : TRUE)

\* Inputs of unflatten: flat objects of at most MaxEntries entries, in any
\* order, and some values that are not objects.
FlatKeys == {<<>>, <<".">>, <<"a">>, <<"b">>, <<"a", ".">>,
             <<"a", ".", "b">>, <<"a", ".", "b", ".", "a">>}
FlatValues == {Num(2), Arr(<<Num(1)>>)}

RECURSIVE FlatEntries(_, _)
FlatEntries(n, keys) ==
    IF n = 0 THEN {<<>>}
    ELSE UNION {{<< <<key, x>> >> \o r :
                   x \in FlatValues, r \in FlatEntries(n - 1, keys \ {key})} :
                key \in keys}

FlatObjects == {Obj(c) : c \in UNION {FlatEntries(n, FlatKeys) : n \in 0..MaxEntries}}
NonObjects == Scalars \cup {Arr(<<>>), Arr(<<Num(1), Num(2)>>)}
UnflattenInputs == FlatObjects \cup NonObjects

NoValue == [t |-> "none"]
NoTree == [k |-> "none"]

(***************************************************************************)
(* SpecFlatten: one value is flattened by process_one, and what it emitted *)
(* is handed to unflatten.                                                 *)
(***************************************************************************)
InitFlatten ==
    /\ sep \in Seps
    /\ input \in FlattenInputs
    /\ pc = "start"
    /\ emitted = NoValue
    /\ back = NoResult
    /\ pending = <<>> /\ tree = NoTree /\ ures = NoResult
    /\ records = <<>> /\ mode = "flatten" /\ pos = 0
    /\ stdout = <<>> /\ log = <<>> /\ status = "running"

FlattenOne ==
    /\ pc = "start"
    /\ emitted' = ProcessOneFlatten(sep, input)
    /\ pc' = "flattened"
    /\ UNCHANGED <<sep, input, back, pending, tree, ures,
                   records, mode, pos, stdout, log, status>>

UnflattenBack ==
    /\ pc = "flattened"
    /\ back' = unflatten(sep, emitted)
    /\ pc' = "done"
    /\ UNCHANGED <<sep, input, emitted, pending, tree, ures,
                   records, mode, pos, stdout, log, status>>

NextFlatten == FlattenOne \/ UnflattenBack

SpecFlatten == InitFlatten /\ [][NextFlatten]_vars

(***************************************************************************)
(* SpecUnflatten: one call of Flatten::unflatten, insert by insert.        *)
(***************************************************************************)
InitUnflatten ==
    /\ sep \in Seps
    /\ input \in UnflattenInputs
    /\ pc = "call"
    /\ pending = <<>>
    /\ tree = NoTree
    /\ ures = NoResult
    /\ emitted = NoValue /\ back = NoResult
    /\ records = <<>> /\ mode = "unflatten" /\ pos = 0
    /\ stdout = <<>> /\ log = <<>> /\ status = "running"

\* The match at the head of unflatten, not an object: bail!.
UnflattenReject ==
    /\ pc = "call"
    /\ MatchObject(input) = Err
    /\ ures' = Err
    /\ pc' = "returned"
    /\ UNCHANGED <<sep, input, emitted, back, pending, tree,
                   records, mode, pos, stdout, log, status>>

\* The match at the head of unflatten, an object: let mut tree = Empty.
UnflattenBegin ==
    /\ pc = "call"
    /\ MatchObject(input).r = "ok"
    /\ tree' = Empty
    /\ pending' = MatchObject(input).val
    /\ pc' = "loop"
    /\ UNCHANGED <<sep, input, emitted, back, ures,
                   records, mode, pos, stdout, log, status>>

\* One turn of the for loop: tree.insert(key.split(sep), value).
UnflattenInsert ==
    /\ pc = "loop"
    /\ pending # <<>>
    /\ tree' = Insert(tree, Split(Head(pending)[1], sep), Head(pending)[2])
    /\ pending' = Tail(pending)
    /\ UNCHANGED <<sep, pc, input, emitted, back, ures,
                   records, mode, pos, stdout, log, status>>

\* Ok(tree).
UnflattenReturn ==
    /\ pc = "loop"
    /\ pending = <<>>
    /\ ures' = Ok(tree)
    /\ pc' = "returned"
    /\ UNCHANGED <<sep, input, emitted, back, pending, tree,
                   records, mode, pos, stdout, log, status>>

NextUnflatten ==
    UnflattenReject \/ UnflattenBegin \/ UnflattenInsert \/ UnflattenReturn

SpecUnflatten == InitUnflatten /\ [][NextUnflatten]_vars

(***************************************************************************)
(* Spec: run_json_stream_impl over a stream of records, with Flatten or    *)
(* Unflatten as the RunStreamJson.  Reading and writing do not fail here   *)
(* other than by a record that does not parse.                             *)
(***************************************************************************)
ParseError == [t |-> "parse_error"]
Newline == [w |-> "newline"]
Written(v) == [w |-> "value", v |-> v]

StreamItems == {ParseError, Num(1), Arr(<<Num(1)>>),
                Obj(<< <<<<"a", ".", "b">>, Num(1)>> >>),
                Obj(<< <<<<"a">>, Obj(<< <<<<"b">>, Num(1)>> >>)>> >>)}

RECURSIVE Streams(_)
Streams(n) ==
    IF n = 0 THEN {<<>>}
    ELSE {<<x>> \o r : x \in StreamItems, r \in Streams(n - 1)}

\* process_one of the RunStreamJson that main selects: what it serializes,
\* or its error.
ProcessOne(m, s, value) ==
    IF m = "unflatten"
    THEN LET r == unflatten(s, value) IN
         IF r.r = "ok" THEN Ok(SerializeTree(r.val)) ELSE Err
    ELSE Ok(ProcessOneFlatten(s, value))

Init ==
    /\ sep \in Seps
    /\ mode \in {"flatten", "unflatten"}
    /\ records \in UNION {Streams(n) : n \in 0..MaxRecords}
    /\ pos = 0
    /\ stdout = <<>>
    /\ log = <<>>
    /\ status = "running"
    /\ pc = "next"
    /\ input = NoValue
    /\ emitted = NoValue /\ back = NoResult
    /\ pending = <<>> /\ tree = NoTree /\ ures = NoResult

\* stream.next() yields a value.
ReadValue ==
    /\ status = "running" /\ pc = "next"
    /\ pos < Len(records)
    /\ records[pos + 1] # ParseError
    /\ pos' = pos + 1
    /\ input' = records[pos + 1]
    /\ pc' = "process"
    /\ UNCHANGED <<sep, emitted, back, pending, tree, ures,
                   records, mode, stdout, log, status>>

\* stream.next() yields an error: `value?` returns it.
ReadError ==
    /\ status = "running" /\ pc = "next"
    /\ pos < Len(records)
    /\ records[pos + 1] = ParseError
    /\ pos' = pos + 1
    /\ pc' = "returned"
    /\ status' = "err"
    /\ UNCHANGED <<sep, input, emitted, back, pending, tree, ures,
                   records, mode, stdout, log>>

\* run.process_one(value, &mut output) returns Ok: the output is written.
ProcessOk ==
    /\ status = "running" /\ pc = "process"
    /\ ProcessOne(mode, sep, input).r = "ok"
    /\ log' = Append(log, pos)
    /\ stdout' = Append(stdout, Written(ProcessOne(mode, sep, input).val))
    /\ pc' = "newline"
    /\ UNCHANGED <<sep, input, emitted, back, pending, tree, ures,
                   records, mode, pos, status>>

ProcessErrSkip ==
    /\ status = "running" /\ pc = "process"
    /\ ProcessOne(mode, sep, input) = Err
    /\ log' = Append(log, pos)
    /\ pc' = "next"
    /\ UNCHANGED <<sep, input, emitted, back, pending, tree, ures,
                   records, mode, pos, stdout, status>>

\* run.process_one(value, &mut output) returns Err: `?` returns it.
ProcessErr ==
    /\ status = "running" /\ pc = "process"
    /\ ProcessOne(mode, sep, input) = Err
    /\ log' = Append(log, pos)
    /\ pc' = "returned"
    /\ status' = "err"
    /\ UNCHANGED <<sep, input, emitted, back, pending, tree, ures,
                   records, mode, pos, stdout>>

\* stdout.write_all(b"\n").
WriteNewline ==
    /\ status = "running" /\ pc = "newline"
    /\ stdout' = Append(stdout, Newline)
    /\ pc' = "next"
    /\ UNCHANGED <<sep, input, emitted, back, pending, tree, ures,
                   records, mode, pos, log, status>>

\* The stream is exhausted: Ok(()).
StreamEnd ==
    /\ status = "running" /\ pc = "next"
    /\ pos = Len(records)
    /\ pc' = "returned"
    /\ status' = "ok"
    /\ UNCHANGED <<sep, input, emitted, back, pending, tree, ures,
                   records, mode, pos, stdout, log>>

Next ==
    ReadValue \/ ReadError \/ ProcessOk \/ ProcessErr \/ WriteNewline \/ StreamEnd

Spec == Init /\ [][Next]_vars

(***************************************************************************)
(* Paths of a value, computed from the value alone.                        *)
(***************************************************************************)
\* The segments joined with the separator: one separator between
\* consecutive segments, none before the first.
RECURSIVE Join(_, _)
Join(segs, s) ==
    IF segs = <<>> THEN <<>>
    ELSE IF Len(segs) = 1 THEN segs[1]
    ELSE segs[1] \o s \o Join(Tail(segs), s)

Items(v) == IF is_array(v) THEN Enumerate(v.items) ELSE v.entries

\* The scalar leaves of v as <<path, scalar>>, depth first, each path being
\* the object keys and array indices that lead to the leaf.
RECURSIVE LeavesOf(_, _), LeavesOfItems(_, _)
LeavesOf(path, v) ==
    IF IsScalar(v) THEN << <<path, v>> >>
    ELSE LeavesOfItems(path, Items(v))

LeavesOfItems(path, items) ==
    IF items = <<>> THEN <<>>
    ELSE LeavesOf(Append(path, Head(items)[1]), Head(items)[2])
         \o LeavesOfItems(path, Tail(items))

Range(f) == {f[i] : i \in DOMAIN f}

\* Every value nested in v, v included, with the path that leads to it.
RECURSIVE NodesOf(_, _)
NodesOf(path, v) ==
    {<<path, v>>} \cup
    (IF IsScalar(v) THEN {}
     ELSE UNION {NodesOf(Append(path, it[1]), it[2]) : it \in Range(Items(v))})

OutputKeys(out) == {out.entries[i][1] : i \in 1..Len(out.entries)}

(***************************************************************************)
(* Claims about flatten (checked under SpecFlatten).                       *)
(***************************************************************************)
IsIndex(key) == key # <<>> /\ \A i \in 1..Len(key) : key[i] \in Range(Digits)

ObjectKeys(v) ==
    UNION {OutputKeys(n[2]) : n \in {x \in NodesOf(<<>>, v) : is_object(x[2])}}

\* The precondition spec.md gives for the round trip: no two leaves share a
\* key after path-joining, and no object key looks like an array index.
NoCollision(v, s) ==
    LET leaves == LeavesOf(<<>>, v) IN
    /\ \A i, j \in 1..Len(leaves) :
          i # j => Join(leaves[i][1], s) # Join(leaves[j][1], s)
    /\ \A key \in ObjectKeys(v) : ~IsIndex(key)

RoundTrips == back.r = "ok" /\ SerializeTree(back.val) = Canon(input)

\* C1 as stated: for every object or array v without colliding keys
\* (arrays, empty containers and empty-string keys included),
\* unflatten(flatten(v)) equals v.
C1_RoundTripAnyValue ==
    (pc = "done" /\ ~IsScalar(input) /\ NoCollision(input, sep)) => RoundTrips

\* The values for which the round trip does hold: an object in which every
\* container is a non-empty object, no key holds a character of the
\* separator, and the empty-string key at the top level holds no object.
RoundTrippable(v, s) ==
    /\ is_object(v)
    /\ \A n \in NodesOf(<<>>, v) :
          ~IsScalar(n[2]) => is_object(n[2]) /\ n[2].entries # <<>>
    /\ \A key \in ObjectKeys(v) : \A i \in 1..Len(key) : key[i] \notin Range(s)
    /\ \A e \in Range(v.entries) : e[1] = <<>> => IsScalar(e[2])

\* C1, amended: unflatten(flatten(v)) equals v, as nested mappings, for
\* every non-empty object v whose nested containers are all non-empty
\* objects, whose keys hold no character of the separator, and whose
\* top-level empty-string key, if any, holds a scalar.
C1_RoundTripObjects ==
    (pc = "done" /\ RoundTrippable(input, sep)) => RoundTrips

\* C1's case: a round trip of a nested object that has an empty-string key.
C1_Witness ==
    /\ pc = "done"
    /\ RoundTrippable(input, sep)
    /\ \E e \in Range(input.entries) :
          is_object(e[2]) /\ <<>> \in OutputKeys(e[2])
    /\ RoundTrips

\* C5 as stated: the output holds, for every scalar leaf, the key made of
\* the leaf's path segments joined with the separator, whatever the
\* segments are (an empty-string key at any depth included).
C5_KeyIsJoinedPath ==
    (pc # "start" /\ ~IsScalar(input)) =>
        \A leaf \in Range(LeavesOf(<<>>, input)) :
            Join(leaf[1], sep) \in OutputKeys(emitted)

FlatObject(v) == is_object(v) /\ \A e \in Range(v.entries) : IsScalar(e[2])

\* C6: flatten returns an object whose values are all scalars with the same
\* key-value pairs in the same order, and flattening any output of flatten
\* again returns it unchanged.
C6_FlatIdempotent ==
    pc # "start" =>
        /\ FlatObject(input) => emitted = input
        /\ ProcessOneFlatten(sep, emitted) = emitted

\* C6's case: a flat object of several entries has been flattened.
C6_Witness ==
    /\ pc = "flattened"
    /\ FlatObject(input)
    /\ Len(input.entries) >= 2
    /\ emitted = input

\* C7: a top-level scalar is emitted unchanged; any other input yields a
\* flat object, so flatten always has an output.
C7_TopLevelScalar ==
    pc # "start" =>
        IF IsScalar(input) THEN emitted = input ELSE FlatObject(emitted)

\* C7's case: process_one has been given a top-level scalar.
C7_Witness ==
    /\ pc = "flattened"
    /\ IsScalar(input)
    /\ input = Num(1)
    /\ emitted = Num(1)

(***************************************************************************)
(* Claims about unflatten (checked under SpecUnflatten).                   *)
(***************************************************************************)
IsProperPrefix(p, q) == Len(p) < Len(q) /\ SubSeq(q, 1, Len(p)) = p

Segs(e) == Split(e[1], sep)

\* The node of the tree at a path of segments, NoTree where there is none.
RECURSIVE NodeAt(_, _)
NodeAt(node, path) ==
    IF path = <<>> THEN node
    ELSE IF node.k = "Branch" /\ Head(path) \in DOMAIN node.m
         THEN NodeAt(node.m[Head(path)], Tail(path))
         ELSE NoTree

\* The paths of the Branch nodes of a tree.
RECURSIVE BranchPaths(_, _)
BranchPaths(node, path) ==
    IF node.k # "Branch" THEN {}
    ELSE {path} \cup
         UNION {BranchPaths(node.m[key], Append(path, key)) : key \in DOMAIN node.m}

\* The leaves of a tree as <<path, value>>.
RECURSIVE LeafSet(_, _)
LeafSet(node, path) ==
    CASE node.k = "Leaf" -> {<<path, node.v>>}
      [] node.k = "Branch" ->
            UNION {LeafSet(node.m[key], Append(path, key)) : key \in DOMAIN node.m}
      [] OTHER -> {}

\* A fresh node holding value under the remaining segments.
RECURSIVE Chain(_, _)
Chain(segs, value) ==
    IF segs = <<>> THEN Leaf(value)
    ELSE Branch(Head(segs) :> Chain(Tail(segs), value))

InLoop == is_object(input) /\ pc \in {"loop", "returned"}

\* The entries inserted so far.
Inserted == SubSeq(input.entries, 1, Len(input.entries) - Len(pending))

KeyA == <<"a">>
KeyB == <<"b">>
KeyAB == <<"a", ".", "b">>
LongThenShort == Obj(<< <<KeyAB, Arr(<<Num(1)>>)>>, <<KeyA, Num(2)>> >>)
ShortThenLong == Obj(<< <<KeyA, Num(2)>>, <<KeyAB, Arr(<<Num(1)>>)>> >>)
NestedAB == Map(KeyA :> Map(KeyB :> Arr(<<Num(1)>>)))

\* C2 as stated: with separator ".", the keys "a.b" then "a" with values
\* [1] and 2 yield {"a": 2}.
C2_LaterShorterKeyWins ==
    (pc = "returned" /\ sep = Dot /\ input = LongThenShort) =>
        SerializeTree(ures.val) = Map(KeyA :> Num(2))

\* C2, amended: with separator ".", the keys "a.b" then "a" with values [1]
\* and 2 yield {"a": {"b": [1]}}: the branch made by the earlier longer key
\* stays and the later shorter key's value is dropped.
C2_EarlierLongerKeyWins ==
    (pc = "returned" /\ sep = Dot /\ input = LongThenShort) =>
        ures.r = "ok" /\ SerializeTree(ures.val) = NestedAB

\* C2's case: unflatten has returned for the keys "a.b" then "a".
C2_Witness ==
    pc = "returned" /\ sep = Dot /\ input = LongThenShort /\ ures.r = "ok"

\* C3, on the result: the keys "a" then "a.b" with values 2 and [1] yield
\* {"a": {"b": [1]}}, and a key that is a proper segment-prefix of a key
\* inserted after it is a Branch in the tree, not a scalar.
C3_PrefixKeyIsBranch ==
    /\ (pc = "returned" /\ sep = Dot /\ input = ShortThenLong) =>
           ures.r = "ok" /\ SerializeTree(ures.val) = NestedAB
    /\ InLoop =>
           \A i, j \in 1..Len(Inserted) :
               (i < j /\ IsProperPrefix(Segs(Inserted[i]), Segs(Inserted[j]))) =>
                   NodeAt(tree, Segs(Inserted[i])).k = "Branch"

\* C3, on one insert: a Leaf met while segments remain is replaced by a
\* Branch that holds only the remaining path and the inserted value.
C3_LeafBecomesBranch ==
    (pc = "loop" /\ pending # <<>>) =>
        LET segs == Segs(Head(pending)) IN
        \A n \in 0..(Len(segs) - 1) :
            NodeAt(tree, SubSeq(segs, 1, n)).k = "Leaf" =>
                NodeAt(tree', SubSeq(segs, 1, n)) =
                    Chain(SubSeq(segs, n + 1, Len(segs)), Head(pending)[2])

\* C3: the clobber rule. When insert reaches a Leaf while key segments
\* remain, the leaf's value is discarded and the node becomes a Branch
\* holding the remaining path; so "a" then "a.b" yields {"a": {"b": [1]}},
\* and a key that is a proper segment-prefix of a later key is no scalar.
C3_ClobberRule == [](C3_PrefixKeyIsBranch) /\ [][C3_LeafBecomesBranch]_vars

\* C3's case: a longer key has been inserted over the leaf of a shorter one.
C3_Witness ==
    /\ pc = "returned" /\ sep = Dot /\ input = ShortThenLong
    /\ NodeAt(tree, <<KeyA>>).k = "Branch"
    /\ NodeAt(tree, <<KeyA, KeyB>>) = Leaf(Arr(<<Num(1)>>))

\* C4: for an input that is not an object, unflatten returns an error, no
\* tree is ever created, nothing is inserted and no tree is returned.
C4_NonObjectRejected ==
    ~is_object(input) =>
        /\ tree = NoTree
        /\ pending = <<>>
        /\ ures.r # "ok"
        /\ pc = "returned" => ures = Err

\* C4's case: unflatten has returned for an array.
C4_Witness ==
    pc = "returned" /\ input = Arr(<<Num(1), Num(2)>>) /\ ures = Err /\ tree = NoTree

\* C9, on one step: every Branch stays a Branch and keeps its children, and
\* an insert whose segments end at a Branch changes nothing.
C9_Step ==
    /\ \A path \in BranchPaths(tree, <<>>) :
          /\ NodeAt(tree', path).k = "Branch"
          /\ DOMAIN NodeAt(tree, path).m \subseteq DOMAIN NodeAt(tree', path).m
    /\ (pc = "loop" /\ pending # <<>>
           /\ NodeAt(tree, Segs(Head(pending))).k = "Branch") => tree' = tree

\* C9: Branch monotonicity. Across the inserts of a call, a Branch node
\* never becomes Leaf or Empty and never loses a child entry; an insert
\* whose key segments are exhausted at a Branch leaves the tree unchanged.
C9_BranchMonotone == [][C9_Step]_vars

\* C9's case: a key whose segments end at an existing Branch was inserted
\* after the keys under it, and the Branch is still there.
C9_Witness ==
    /\ InLoop
    /\ \E i, j \in 1..Len(Inserted) :
          /\ i < j
          /\ IsProperPrefix(Segs(Inserted[j]), Segs(Inserted[i]))
          /\ NodeAt(tree, Segs(Inserted[j])).k = "Branch"

RECURSIVE Perms(_)
Perms(q) ==
    IF q = <<>> THEN {<<>>}
    ELSE UNION {{<<q[i]>> \o r :
                   r \in Perms([j \in 1..(Len(q) - 1) |->
                                   IF j < i THEN q[j] ELSE q[j + 1]])} :
                i \in 1..Len(q)}

\* C10: the tree does not depend on the insertion order. Every order of the
\* same entries gives the same tree, and its leaves are exactly the keys
\* whose segments are no proper prefix of another key's, each with its own
\* value.
C10_OrderIndependent ==
    (pc = "returned" /\ is_object(input)) =>
        /\ \A q \in Perms(input.entries) : InsertAll(sep, Empty, q) = tree
        /\ LeafSet(tree, <<>>) =
              {<<Segs(e), e[2]>> :
                  e \in {x \in Range(input.entries) :
                            \A y \in Range(input.entries) :
                                ~IsProperPrefix(Segs(x), Segs(y))}}

\* C10's case: a key and a proper prefix of it, the longer one first, with a
\* third key, have all been inserted.
C10_Witness ==
    /\ pc = "returned" /\ is_object(input)
    /\ Len(input.entries) = 3
    /\ IsProperPrefix(Segs(input.entries[2]), Segs(input.entries[1]))
    /\ ures = Ok(tree)

(***************************************************************************)
(* Claims about the stream driver (checked under Spec).                    *)
(***************************************************************************)
Fails(i) ==
    \/ records[i] = ParseError
    \/ ProcessOne(mode, sep, records[i]) = Err

\* The index of the first record that fails, Len(records) + 1 if none does.
FirstFail ==
    IF \E i \in 1..Len(records) : Fails(i)
    THEN CHOOSE i \in 1..Len(records) :
            Fails(i) /\ \A j \in 1..(i - 1) : ~Fails(j)
    ELSE Len(records) + 1

\* The output of records 1..n: each record's value, then a newline.
RECURSIVE OutputOf(_)
OutputOf(n) ==
    IF n = 0 THEN <<>>
    ELSE OutputOf(n - 1)
         \o <<Written(ProcessOne(mode, sep, records[n]).val), Newline>>

\* C8: records are processed one at a time in input order; the output of a
\* record and its newline are written before the next record is processed;
\* the run halts at the first record that fails to parse or to process,
\* with the output of exactly the records before it, and no later record
\* is read, processed or emitted.
C8_StreamOrder ==
    /\ pos <= FirstFail
    /\ log = [i \in 1..Len(log) |-> i]
    /\ Len(log) \in {pos - 1, pos}
    /\ \A i \in Range(log) : records[i] # ParseError
    /\ pc = "process" => (Len(log) = pos - 1 /\ stdout = OutputOf(pos - 1))
    /\ pc = "newline" =>
          /\ pos < FirstFail
          /\ stdout = OutputOf(pos - 1)
                      \o <<Written(ProcessOne(mode, sep, records[pos]).val)>>
    /\ (pc = "next" /\ status = "running") =>
          pos < FirstFail /\ stdout = OutputOf(pos)
    /\ status = "err" =>
          pos = FirstFail /\ pos <= Len(records) /\ stdout = OutputOf(pos - 1)
    /\ status = "ok" =>
          FirstFail = Len(records) + 1 /\ stdout = OutputOf(Len(records))

\* C8's case: the second of three records failed in process_one after the
\* first was written, and the run has halted.
C8_Witness ==
    /\ status = "err"
    /\ Len(records) = 3 /\ pos = 2
    /\ records[2] # ParseError
    /\ ~Fails(3)
    /\ log = <<1, 2>>
    /\ stdout = OutputOf(1)

(***************************************************************************)
(* The shape of the tree unflatten returns (checked under SpecUnflatten).  *)
(***************************************************************************)
\* The paths of the Empty nodes of a tree.
RECURSIVE EmptyPaths(_, _)
EmptyPaths(node, path) ==
    CASE node.k = "Empty" -> {path}
      [] node.k = "Branch" ->
            UNION {EmptyPaths(node.m[key], Append(path, key)) : key \in DOMAIN node.m}
      [] OTHER -> {}

\* C11: the root of the tree unflatten returns is a Branch exactly when the
\* input object has at least one key, and then no node of the tree is
\* Empty; for the empty object unflatten returns Ok with the root still
\* Empty, which serializes as null. The same holds between two inserts.
C11_RootShape ==
    /\ (pc = "returned" /\ is_object(input)) =>
          /\ ures = Ok(tree)
          /\ (tree.k = "Branch") <=> (input.entries # <<>>)
          /\ input.entries = <<>> =>
                (tree = Empty /\ SerializeTree(ures.val) = Null)
    /\ InLoop =>
          IF Inserted = <<>>
          THEN tree = Empty
          ELSE tree.k = "Branch" /\ EmptyPaths(tree, <<>>) = {}

\* C11's case: unflatten has returned a tree of nested branches for an
\* object with several keys, one of them a prefix of another.
C11_Witness ==
    /\ pc = "returned" /\ is_object(input)
    /\ Len(input.entries) >= 2
    /\ ures.r = "ok" /\ ures.val.k = "Branch"
    /\ \E path \in BranchPaths(ures.val, <<>>) : Len(path) >= 1
    /\ \E i, j \in 1..Len(input.entries) :
          IsProperPrefix(Segs(input.entries[i]), Segs(input.entries[j]))

\* The empty object: Ok with the root Empty.
C11_EmptyObjectCase ==
    pc = "returned" /\ input = Obj(<<>>) /\ ures = Ok(Empty)

====
